---- MODULE Spec2Model ----
(***************************************************************************)
(* Model of the loanword API service (src/main.py): the lazily created,    *)
(* module-level database engine (get_engine), the dbtest, health and       *)
(* generate_deck request handlers and the in-memory CATALOG.               *)
(*                                                                         *)
(* Python's None is the empty sequence and a value v that may be None is   *)
(* the one-element sequence <<v>>, so that "x is truthy" is x # None.      *)
(* Handlers declared with def run on the framework's thread pool, so the   *)
(* steps of several dbtest requests interleave between the reads and the   *)
(* writes of the module globals.                                           *)
(***************************************************************************)
EXTENDS Integers, Sequences, FiniteSets, TLC

\* ---------------------------------------------------------------- bounds
MaxKnown == 2
NumWorkers == 2

\* ------------------------------------------------------------ input sets
None == <<>>
Workers == 1..NumWorkers
Slots == {1, 2}
Langs == {"es", "fr", "ar", "en"}
Difficulties == {"beginner", "all"}
KnownLists == UNION {[1..n -> Langs] : n \in 0..MaxKnown}
GenerateRequest ==
  [knownLanguages : KnownLists, targetLanguage : Langs, difficulty : Difficulties]

\* ----------------------------------------------------------- the catalog
\* The dict keeps insertion order: a sequence of (key, cards) entries.
\* The cards keep the fields the handlers and the contract look at; the
\* presentation-only fields (sourceForm, examples, ipa) are left out.
Card(id, t, s, lemma, gloss) ==
  [id |-> id, targetLang |-> t, lemma |-> lemma, sourceLang |-> s, gloss |-> gloss]

CATALOG ==
  << [key |-> <<"es", "ar">>,
      cards |-> << Card("c1", "es", "ar", "almohada", "pillow"),
                   Card("c2", "es", "ar", "aceituna", "olive") >>],
     [key |-> <<"es", "en">>,
      cards |-> << Card("c3", "es", "en", "hotel", "hotel"),
                   Card("c4", "es", "en", "futbol", "football / soccer") >>],
     [key |-> <<"fr", "en">>,
      cards |-> << Card("c5", "fr", "en", "week-end", "weekend") >>] >>

VARIABLES
  catalog,        \* the module-level CATALOG dict
  DATABASE_URL,   \* normalised URL read from the environment at import
  _engine,        \* module global: the cached engine or None
  _engine_error,  \* module global: the cached error text or None
  createCalls,    \* number of create_engine invocations so far
  returned,       \* engines that get_engine calls have returned (non-None)
  pc,             \* position of each dbtest request thread
  eng,            \* dbtest's local eng (result of get_engine)
  dbResp,         \* last dbtest response of each thread
  gdPc,           \* position of each generate_deck request
  gdReq,          \* the request body of each generate_deck request
  gdResp,         \* the last generate_deck response
  healthResp      \* the last health response

vars == <<catalog, DATABASE_URL, _engine, _engine_error, createCalls, returned,
          pc, eng, dbResp, gdPc, gdReq, gdResp, healthResp>>
engineVars == <<_engine, _engine_error, createCalls, returned, pc, eng, dbResp>>
deckVars == <<gdPc, gdReq, gdResp>>

NoResponse == [status |-> 0]
NoRequest == [knownLanguages |-> <<>>, targetLanguage |-> "", difficulty |-> ""]

Init ==
  /\ catalog = CATALOG
  /\ DATABASE_URL \in {None, <<"postgresql+psycopg://db/loan?sslmode=require">>}
  /\ _engine = None
  /\ _engine_error = None
  /\ createCalls = 0
  /\ returned = {}
  /\ pc = [w \in Workers |-> "idle"]
  /\ eng = [w \in Workers |-> None]
  /\ dbResp = [w \in Workers |-> NoResponse]
  /\ gdPc = [s \in Slots |-> "idle"]
  /\ gdReq = [s \in Slots |-> NoRequest]
  /\ gdResp = [s \in Slots |-> NoResponse]
  /\ healthResp = None

\* ------------------------------------------------ get_engine and dbtest
MissingUrlError == "DATABASE_URL missing (set it in Render -> Environment)"
CreateEngineError == "create_engine raised"
ConnectError == "connect or SELECT NOW() raised"
NotInitialized == "Database engine not initialized"

\* line 75: "if _engine or _engine_error"; line 77: "if not DATABASE_URL".
\* The thread only decides here where it goes; it writes nothing yet.
get_engine_check(w) ==
  /\ pc[w] = "idle"
  /\ pc' = [pc EXCEPT ![w] =
              IF _engine # None \/ _engine_error # None THEN "l76"
              ELSE IF DATABASE_URL = None THEN "l78"
              ELSE "l81"]
  /\ UNCHANGED <<catalog, DATABASE_URL, _engine, _engine_error, createCalls,
                 returned, eng, dbResp, deckVars, healthResp>>

\* line 76: "return _engine" (the global is read again here).
get_engine_return_cached(w) ==
  /\ pc[w] = "l76"
  /\ eng' = [eng EXCEPT ![w] = _engine]
  /\ returned' = IF _engine # None THEN returned \cup {_engine} ELSE returned
  /\ pc' = [pc EXCEPT ![w] = "l179"]
  /\ UNCHANGED <<catalog, DATABASE_URL, _engine, _engine_error, createCalls,
                 dbResp, deckVars, healthResp>>

\* lines 78-79: record the missing URL and return None.
get_engine_missing_url(w) ==
  /\ pc[w] = "l78"
  /\ _engine_error' = <<MissingUrlError>>
  /\ eng' = [eng EXCEPT ![w] = None]
  /\ pc' = [pc EXCEPT ![w] = "l179"]
  /\ UNCHANGED <<catalog, DATABASE_URL, _engine, createCalls, returned,
                 dbResp, deckVars, healthResp>>

\* line 81: create_engine returns a fresh engine, which is stored in _engine.
get_engine_create_ok(w) ==
  /\ pc[w] = "l81"
  /\ createCalls' = createCalls + 1
  /\ _engine' = <<createCalls + 1>>
  /\ pc' = [pc EXCEPT ![w] = "l82"]
  /\ UNCHANGED <<catalog, DATABASE_URL, _engine_error, returned, eng,
                 dbResp, deckVars, healthResp>>

\* line 82: "return _engine" (the global, not the value just created).
get_engine_return_new(w) ==
  /\ pc[w] = "l82"
  /\ eng' = [eng EXCEPT ![w] = _engine]
  /\ returned' = IF _engine # None THEN returned \cup {_engine} ELSE returned
  /\ pc' = [pc EXCEPT ![w] = "l179"]
  /\ UNCHANGED <<catalog, DATABASE_URL, _engine, _engine_error, createCalls,
                 dbResp, deckVars, healthResp>>

\* lines 81, 83-86: create_engine raises; the text is cached, None returned.
get_engine_create_fail(w) ==
  /\ pc[w] = "l81"
  /\ createCalls' = createCalls + 1
  /\ _engine_error' = <<CreateEngineError>>
  /\ eng' = [eng EXCEPT ![w] = None]
  /\ pc' = [pc EXCEPT ![w] = "l179"]
  /\ UNCHANGED <<catalog, DATABASE_URL, _engine, returned, dbResp, deckVars,
                 healthResp>>

\* lines 179-183: no engine, answer 500 with the cached error text.
dbtest_no_engine(w) ==
  /\ pc[w] = "l179"
  /\ eng[w] = None
  /\ dbResp' = [dbResp EXCEPT ![w] =
        [status |-> 500,
         content |-> [status |-> "error",
                      detail |-> IF _engine_error # None THEN _engine_error[1]
                                 ELSE NotInitialized]]]
  /\ pc' = [pc EXCEPT ![w] = "done"]
  /\ UNCHANGED <<catalog, DATABASE_URL, _engine, _engine_error, createCalls,
                 returned, eng, deckVars, healthResp>>

\* lines 184-187: the connection and the query succeed.
dbtest_connect_ok(w) ==
  /\ pc[w] = "l179"
  /\ eng[w] # None
  /\ dbResp' = [dbResp EXCEPT ![w] =
        [status |-> 200, content |-> [status |-> "ok", time |-> "now"]]]
  /\ pc' = [pc EXCEPT ![w] = "done"]
  /\ UNCHANGED <<catalog, DATABASE_URL, _engine, _engine_error, createCalls,
                 returned, eng, deckVars, healthResp>>

\* lines 188-189: the connection or the query raises.
dbtest_connect_fail(w) ==
  /\ pc[w] = "l179"
  /\ eng[w] # None
  /\ dbResp' = [dbResp EXCEPT ![w] =
        [status |-> 500, content |-> [status |-> "error", detail |-> ConnectError]]]
  /\ pc' = [pc EXCEPT ![w] = "done"]
  /\ UNCHANGED <<catalog, DATABASE_URL, _engine, _engine_error, createCalls,
                 returned, eng, deckVars, healthResp>>

\* The response has been sent; the request-scoped values are dropped.
dbtest_finish(w) ==
  /\ pc[w] = "done"
  /\ dbResp' = [dbResp EXCEPT ![w] = NoResponse]
  /\ eng' = [eng EXCEPT ![w] = None]
  /\ pc' = [pc EXCEPT ![w] = "idle"]
  /\ UNCHANGED <<catalog, DATABASE_URL, _engine, _engine_error, createCalls,
                 returned, deckVars, healthResp>>

dbtest(w) ==
  \/ get_engine_check(w)
  \/ get_engine_return_cached(w)
  \/ get_engine_missing_url(w)
  \/ get_engine_create_ok(w)
  \/ get_engine_return_new(w)
  \/ get_engine_create_fail(w)
  \/ dbtest_no_engine(w)
  \/ dbtest_connect_ok(w)
  \/ dbtest_connect_fail(w)
  \/ dbtest_finish(w)

\* --------------------------------------------------------- generate_deck
\* "x in lst" on a Python list.
InList(x, lst) == \E i \in 1..Len(lst) : lst[i] = x

EmptyKnownMessage == "knownLanguages must contain at least one language code"
OverlapMessage == "targetLanguage must not be in knownLanguages"

ValidationError(msg) ==
  [status |-> 400, content |-> [error |-> "VALIDATION_ERROR", message |-> msg]]

\* validate without the emptiness check of line 193.
validate_no_empty_check(req) ==
  IF InList(req.targetLanguage, req.knownLanguages)
  THEN <<ValidationError(OverlapMessage)>>
  ELSE None

\* validate comparing the target with the first known language only.
validate_first_known_only(req) ==
  IF req.knownLanguages = <<>> THEN <<ValidationError(EmptyKnownMessage)>>
  ELSE IF req.knownLanguages[1] = req.targetLanguage
       THEN <<ValidationError(OverlapMessage)>>
  ELSE None

\* lines 193-202: the response of a rejected request, None when it passes.
validate(req) ==
  IF req.knownLanguages = <<>> THEN <<ValidationError(EmptyKnownMessage)>>
  ELSE IF InList(req.targetLanguage, req.knownLanguages)
       THEN <<ValidationError(OverlapMessage)>>
  ELSE None

\* find_pair without the "k[1] in known" condition.
find_pair_any_source(cat, req) ==
  LET hits == {i \in 1..Len(cat) : cat[i].key[1] = req.targetLanguage}
  IN IF hits = {} THEN None
     ELSE <<cat[CHOOSE i \in hits : \A j \in hits : i <= j].key>>

\* line 203: next((k for k in CATALOG if k[0] == target and k[1] in known), None):
\* the first key, in the dict's order, that matches.
find_pair(cat, req) ==
  LET hits == {i \in 1..Len(cat) :
                 /\ cat[i].key[1] = req.targetLanguage
                 /\ InList(cat[i].key[2], req.knownLanguages)}
  IN IF hits = {} THEN None
     ELSE <<cat[CHOOSE i \in hits : \A j \in hits : i <= j].key>>

\* catalog_get whose default is the first entry's cards instead of [].
catalog_get_first_default(cat, pair) ==
  IF pair # None /\ \E i \in 1..Len(cat) : cat[i].key = pair[1]
  THEN cat[CHOOSE i \in 1..Len(cat) : cat[i].key = pair[1]].cards
  ELSE cat[1].cards

\* line 204: CATALOG.get(pair, []).
catalog_get(cat, pair) ==
  IF pair # None /\ \E i \in 1..Len(cat) : cat[i].key = pair[1]
  THEN cat[CHOOSE i \in 1..Len(cat) : cat[i].key = pair[1]].cards
  ELSE <<>>

\* deck_response with a beginner deck cut down to its first card.
deck_response_by_difficulty(cat, req) ==
  LET cards == catalog_get(cat, find_pair(cat, req))
  IN [status |-> 200,
      content |-> [deckId |-> <<"deck_", req.targetLanguage>>,
                   targetLanguage |-> req.targetLanguage,
                   knownLanguages |-> req.knownLanguages,
                   difficulty |-> req.difficulty,
                   cards |-> IF req.difficulty = "beginner" /\ cards # <<>>
                             THEN <<cards[1]>> ELSE cards]]

\* lines 203-211: the body of a successful response.
deck_response(cat, req) ==
  [status |-> 200,
   content |-> [deckId |-> <<"deck_", req.targetLanguage>>,
                targetLanguage |-> req.targetLanguage,
                knownLanguages |-> req.knownLanguages,
                difficulty |-> req.difficulty,
                cards |-> catalog_get(cat, find_pair(cat, req))]]

\* lines 191-192: a request body arrives and is parsed into GenerateRequest.
generate_deck_receive(s, req) ==
  /\ gdPc[s] = "idle"
  /\ gdReq' = [gdReq EXCEPT ![s] = req]
  /\ gdPc' = [gdPc EXCEPT ![s] = "l193"]
  /\ UNCHANGED <<catalog, DATABASE_URL, engineVars, gdResp, healthResp>>

\* lines 193-202: the two validation checks, before the catalog is read.
generate_deck_validate(s) ==
  /\ gdPc[s] = "l193"
  /\ IF validate(gdReq[s]) # None
     THEN /\ gdResp' = [gdResp EXCEPT ![s] = validate(gdReq[s])[1]]
          /\ gdPc' = [gdPc EXCEPT ![s] = "done"]
     ELSE /\ gdPc' = [gdPc EXCEPT ![s] = "l203"]
          /\ UNCHANGED gdResp
  /\ UNCHANGED <<catalog, DATABASE_URL, engineVars, gdReq, healthResp>>

\* generate_deck_lookup that first asks for the engine, as dbtest does, and
\* so caches the missing-URL error.
generate_deck_lookup_touching_engine(s) ==
  /\ gdPc[s] = "l203"
  /\ gdResp' = [gdResp EXCEPT ![s] = deck_response(catalog, gdReq[s])]
  /\ gdPc' = [gdPc EXCEPT ![s] = "done"]
  /\ _engine_error' = IF _engine = None /\ _engine_error = None /\ DATABASE_URL = None
                      THEN <<MissingUrlError>> ELSE _engine_error
  /\ UNCHANGED <<catalog, DATABASE_URL, _engine, createCalls, returned, pc, eng,
                 dbResp, gdReq, healthResp>>

\* lines 203-211: the catalog lookup and the response.
generate_deck_lookup(s) ==
  /\ gdPc[s] = "l203"
  /\ gdResp' = [gdResp EXCEPT ![s] = deck_response(catalog, gdReq[s])]
  /\ gdPc' = [gdPc EXCEPT ![s] = "done"]
  /\ UNCHANGED <<catalog, DATABASE_URL, engineVars, gdReq, healthResp>>

\* The response has been sent; the request-scoped values are dropped.
generate_deck_finish(s) ==
  /\ gdPc[s] = "done"
  /\ gdReq' = [gdReq EXCEPT ![s] = NoRequest]
  /\ gdResp' = [gdResp EXCEPT ![s] = NoResponse]
  /\ gdPc' = [gdPc EXCEPT ![s] = "idle"]
  /\ UNCHANGED <<catalog, DATABASE_URL, engineVars, healthResp>>

generate_deck(s) ==
  \/ \E req \in GenerateRequest : generate_deck_receive(s, req)
  \/ generate_deck_validate(s)
  \/ generate_deck_lookup(s)
  \/ generate_deck_finish(s)

\* health that reports the cached engine error.
health_needs_engine ==
  /\ healthResp' = <<[ok |-> _engine_error = None]>>
  /\ UNCHANGED <<catalog, DATABASE_URL, engineVars, deckVars>>

\* ---------------------------------------------------------------- health
\* lines 168-170.
health ==
  /\ healthResp' = <<[ok |-> TRUE]>>
  /\ UNCHANGED <<catalog, DATABASE_URL, engineVars, deckVars>>

\* Concurrent dbtest requests on the thread pool, and health checks.
NextEngine ==
  \/ \E w \in Workers : dbtest(w)
  \/ health
SpecEngine == Init /\ [][NextEngine]_vars

\* The service answering one request of each kind at a time, their steps
\* interleaved: deck requests, health checks and dbtest requests.
Next ==
  \/ generate_deck(1)
  \/ health
  \/ dbtest(1)
Spec == Init /\ [][Next]_vars

\* Two deck requests that differ at most in their difficulty, side by side.
InitPair ==
  /\ catalog = CATALOG
  /\ DATABASE_URL \in {None, <<"postgresql+psycopg://db/loan?sslmode=require">>}
  /\ _engine = None
  /\ _engine_error = None
  /\ createCalls = 0
  /\ returned = {}
  /\ pc = [w \in Workers |-> "idle"]
  /\ eng = [w \in Workers |-> None]
  /\ dbResp = [w \in Workers |-> NoResponse]
  /\ gdPc = [s \in Slots |-> "l193"]
  /\ \E k \in KnownLists, t \in Langs, d1 \in Difficulties, d2 \in Difficulties :
       gdReq = [s \in Slots |->
                  [knownLanguages |-> k, targetLanguage |-> t,
                   difficulty |-> IF s = 1 THEN d1 ELSE d2]]
  /\ gdResp = [s \in Slots |-> NoResponse]
  /\ healthResp = None
NextPair == \E s \in Slots : generate_deck_validate(s) \/ generate_deck_lookup(s)
SpecPair == InitPair /\ [][NextPair]_vars

\* ------------------------------------------------------------ properties
\* A request that passes both validation checks.
ValidRequest(req) ==
  /\ req.knownLanguages # <<>>
  /\ ~InList(req.targetLanguage, req.knownLanguages)

\* The cards of a response as a set.
CardSet(resp) == {resp.content.cards[i] : i \in 1..Len(resp.content.cards)}

\* Every catalog record whose target language is the request's target and
\* whose source language is one of the request's known languages.
AllMatching(cat, req) ==
  UNION {{cat[i].cards[j] : j \in 1..Len(cat[i].cards)} :
           i \in {k \in 1..Len(cat) :
                    /\ cat[k].key[1] = req.targetLanguage
                    /\ InList(cat[k].key[2], req.knownLanguages)}}

\* C1: a valid request (knownLanguages non-empty, target not in it) gets at
\* most 20 cards, and the sourceLang of every card is one of knownLanguages.
C1_AtMostLimitAndKnownSource ==
  \A s \in Slots :
    (gdPc[s] = "done" /\ ValidRequest(gdReq[s])) =>
      /\ gdResp[s].status = 200
      /\ Len(gdResp[s].content.cards) <= 20
      /\ \A i \in 1..Len(gdResp[s].content.cards) :
           InList(gdResp[s].content.cards[i].sourceLang, gdReq[s].knownLanguages)

C1_Witness ==
  /\ gdPc[1] = "done"
  /\ ValidRequest(gdReq[1])
  /\ Len(gdReq[1].knownLanguages) = 2
  /\ gdResp[1].status = 200
  /\ Len(gdResp[1].content.cards) = 2

\* C2: a valid request gets exactly the set of all catalog records whose
\* target is targetLanguage and whose source is in knownLanguages, also
\* when several known languages have records for that target.
C2_ReturnsAllMatching ==
  \A s \in Slots :
    (gdPc[s] = "done" /\ ValidRequest(gdReq[s])) =>
      /\ gdResp[s].status = 200
      /\ CardSet(gdResp[s]) = AllMatching(catalog, gdReq[s])

\* C3: a request with an empty knownLanguages never reaches the catalog
\* lookup and is answered 400 VALIDATION_ERROR with the knownLanguages
\* message, whatever its targetLanguage and difficulty.
C3_EmptyKnownRejected ==
  \A s \in Slots :
    (gdPc[s] # "idle" /\ gdReq[s].knownLanguages = <<>>) =>
      /\ gdPc[s] # "l203"
      /\ gdPc[s] = "done" =>
           gdResp[s] = [status |-> 400,
                        content |-> [error |-> "VALIDATION_ERROR",
                                     message |-> EmptyKnownMessage]]

C3_Witness ==
  /\ gdPc[1] = "done"
  /\ gdReq[1].knownLanguages = <<>>
  /\ gdReq[1].targetLanguage = "es"
  /\ gdResp[1].status = 400
  /\ gdResp[1].content.message = EmptyKnownMessage

\* C4: a request whose targetLanguage is in knownLanguages, at any position,
\* is answered 400 VALIDATION_ERROR with the overlap message and no cards,
\* and never reaches the catalog lookup.
C4_TargetInKnownRejected ==
  \A s \in Slots :
    (gdPc[s] # "idle" /\ InList(gdReq[s].targetLanguage, gdReq[s].knownLanguages)) =>
      /\ gdPc[s] # "l203"
      /\ gdPc[s] = "done" =>
           gdResp[s] = [status |-> 400,
                        content |-> [error |-> "VALIDATION_ERROR",
                                     message |-> OverlapMessage]]

C4_Witness ==
  /\ gdPc[1] = "done"
  /\ Len(gdReq[1].knownLanguages) = 2
  /\ gdReq[1].knownLanguages[1] # gdReq[1].targetLanguage
  /\ gdReq[1].knownLanguages[2] = gdReq[1].targetLanguage
  /\ gdResp[1].status = 400
  /\ gdResp[1].content.message = OverlapMessage

\* C5: a valid request that no catalog record matches succeeds (status 200)
\* with an empty cards list.
C5_NoMatchGivesEmptyDeck ==
  \A s \in Slots :
    (gdPc[s] = "done" /\ ValidRequest(gdReq[s])
       /\ AllMatching(catalog, gdReq[s]) = {}) =>
      /\ gdResp[s].status = 200
      /\ gdResp[s].content.cards = <<>>

C5_Witness ==
  /\ gdPc[1] = "done"
  /\ gdReq[1].targetLanguage = "fr"
  /\ gdReq[1].knownLanguages = <<"ar", "es">>
  /\ gdResp[1].status = 200
  /\ gdResp[1].content.cards = <<>>

\* C6: two requests with the same targetLanguage and knownLanguages get the
\* same kind of outcome and the same cards whatever their difficulty values;
\* only the echoed difficulty differs.
C6_DifficultyIgnored ==
  (/\ gdPc[1] = "done" /\ gdPc[2] = "done"
   /\ gdReq[1].targetLanguage = gdReq[2].targetLanguage
   /\ gdReq[1].knownLanguages = gdReq[2].knownLanguages) =>
    /\ gdResp[1].status = gdResp[2].status
    /\ gdResp[1].status = 400 => gdResp[1] = gdResp[2]
    /\ gdResp[1].status = 200 =>
         /\ gdResp[1].content.cards = gdResp[2].content.cards
         /\ [gdResp[1].content EXCEPT !.difficulty = ""]
              = [gdResp[2].content EXCEPT !.difficulty = ""]
         /\ \A s \in Slots : gdResp[s].content.difficulty = gdReq[s].difficulty

C6_Witness ==
  /\ gdPc[1] = "done" /\ gdPc[2] = "done"
  /\ gdReq[1].difficulty = "beginner" /\ gdReq[2].difficulty = "all"
  /\ gdReq[1].targetLanguage = gdReq[2].targetLanguage
  /\ gdReq[1].knownLanguages = gdReq[2].knownLanguages
  /\ gdResp[1].status = 200 /\ gdResp[2].status = 200
  /\ Len(gdResp[1].content.cards) = 2

\* C7: whenever health has answered, its answer is {"ok": true}, also once
\* get_engine has cached an engine error.
C7_HealthAlwaysOk ==
  healthResp # None => healthResp = <<[ok |-> TRUE]>>

C7_Witness ==
  /\ healthResp = <<[ok |-> TRUE]>>
  /\ _engine_error # None
  /\ dbResp[1].status = 500

\* C8: no step of a generate_deck request, valid or not, changes the
\* catalog, _engine or _engine_error.
C8_GenerateDeckPureRead ==
  [][(\E s \in Slots : generate_deck(s)) =>
       UNCHANGED <<catalog, _engine, _engine_error>>]_vars

C8_Witness ==
  /\ gdPc[1] = "done"
  /\ gdResp[1].status = 200
  /\ gdResp[1].content.cards # <<>>
  /\ catalog = CATALOG
  /\ _engine = None
  /\ _engine_error = None

\* C9: create_engine is invoked at most once, also with concurrent dbtest
\* requests, and all get_engine calls that return an engine return the
\* same one.
C9_CreateEngineOnce ==
  /\ createCalls <= 1
  /\ Cardinality(returned) <= 1

\* C10: _engine and _engine_error are never both set.
C10_EngineXorError ==
  ~(_engine # None /\ _engine_error # None)

====
